---------------------------- MODULE Spec2Model ----------------------------
(***************************************************************************)
(* A model of app/server.py: the upload handler                           *)
(* CustomHTTPRequestHandler.do_POST, the filename sanitizer               *)
(* sanitize_filename, the file system the handler writes to, do_GET with  *)
(* the static responder behind it, and main with its shutdown and the     *)
(* keypress thread.                                                        *)
(*                                                                         *)
(* Text is a sequence of characters, a character is a one-character       *)
(* string; the request body is a sequence of bytes.  An ASCII byte is     *)
(* written as its character; the other bytes of the model are "xC3"       *)
(* (a two-byte UTF-8 lead), "xA9" (a continuation byte) and "xFF" (a      *)
(* byte that is valid nowhere in UTF-8).  "U+E9" is the character whose   *)
(* UTF-8 encoding is xC3 xA9.  Indices of the string operators are        *)
(* Python's: 0-based, -1 for "not found".                                 *)
(***************************************************************************)
EXTENDS Integers, Sequences, FiniteSets, TLC

VARIABLES
    updir,      \* TRUE when the directory ./uploads exists
    disk,       \* the regular files: a function from path to bytes
    opened,     \* every path given to open(path, "wb") so far
    pc,         \* per worker thread: where it is in do_POST or do_GET
    req,        \* per worker thread: the request it serves
    loc,        \* per worker thread: the locals of do_POST
    sent,       \* per worker thread: the status codes given to send_response
    escaped,    \* per worker thread: TRUE when an exception left do_POST
    snap,       \* per worker thread: the file system when the request began
    served,     \* the number of requests dispatched so far
    sanIn,      \* the argument of a sanitize_filename call
    sanOut,     \* its result
    log,        \* per worker thread: the levels of its logging calls
    fault,      \* per worker thread: the failure its environment caused
    get,        \* per worker thread: the GET request it serves
    proc        \* the main thread, the stop event, the listening socket,
                \* the keypress thread and the exit code of the process

vars == <<updir, disk, opened, pc, req, loc, sent, escaped, snap, served,
          sanIn, sanOut, log, fault, get, proc>>

---------------------------------------------------------------------------
(* Bounds of the model.                                                    *)

\* longest filename given to sanitize_filename on its own
MaxLen == 3
\* requests dispatched in one run
MaxReqs == 2
\* worker threads of the ThreadingTCPServer that serve at the same time
NumWorkers == 2

---------------------------------------------------------------------------
(* Python's str and bytes operations, as the handler uses them.            *)

Chars(str) == [i \in 1..Len(str) |-> SubSeq(str, i, i)]

Min(S) == CHOOSE x \in S : \A y \in S : x <= y

Max(S) == CHOOSE x \in S : \A y \in S : x >= y

\* a slice index brought into 0..n, a negative one counted from the end
NormIndex(i, n) == IF i < 0 THEN (IF i + n < 0 THEN 0 ELSE i + n)
                   ELSE (IF i > n THEN n ELSE i)

\* s[a:b]
Slice(s, a, b) ==
    LET lo == NormIndex(a, Len(s))
        hi == NormIndex(b, Len(s))
    IN  IF lo >= hi THEN <<>> ELSE SubSeq(s, lo + 1, hi)

\* the places where sub occurs in s, at or after start
Occurrences(s, sub, start) ==
    {i \in start..(Len(s) - Len(sub)) : SubSeq(s, i + 1, i + Len(sub)) = sub}

\* s.find(sub, start)
Find(s, sub, start) ==
    LET occ == Occurrences(s, sub, start)
    IN  IF occ = {} THEN -1 ELSE Min(occ)

\* s.rfind(sub)
RFind(s, sub) ==
    LET occ == Occurrences(s, sub, 0)
    IN  IF occ = {} THEN -1 ELSE Max(occ)

\* sub in s
Contains(s, sub) == Find(s, sub, 0) # -1

\* s.split(sep), sep not empty
RECURSIVE Split(_, _)
Split(s, sep) ==
    LET i == Find(s, sep, 0)
    IN  IF i = -1 THEN <<s>>
        ELSE <<Slice(s, 0, i)>> \o Split(Slice(s, i + Len(sep), Len(s)), sep)

\* s.count(ch)
Count(s, ch) == Cardinality({i \in 1..Len(s) : s[i] = ch})

\* bytes.decode("utf-8", errors="ignore"): a well-formed sequence gives its
\* character, a byte that starts or continues none is dropped.  What the
\* byte at i gives: an ASCII byte itself; the lead xC3 the character U+E9
\* when the continuation xA9 follows it, and nothing otherwise; xA9 and xFF
\* nothing ("" stands for nothing)
DecodeAt(b, i) ==
    IF b[i] = "xC3"
    THEN (IF i < Len(b) /\ b[i + 1] = "xA9" THEN "U+E9" ELSE "")
    ELSE IF b[i] \in {"xA9", "xFF"} THEN ""
    ELSE b[i]

IsChar(c) == c # ""

Decode(b) == SelectSeq([i \in 1..Len(b) |-> DecodeAt(b, i)], IsChar)

\* str.encode("utf-8", errors="ignore"): U+E9 gives the two bytes xC3 xA9,
\* an ASCII character itself
Width(c) == IF c = "U+E9" THEN 2 ELSE 1

\* the number of bytes the first i characters of s encode to
EncodedLen(s, i) == i + Cardinality({k \in 1..i : s[k] = "U+E9"})

Encode(s) ==
    [j \in 1..EncodedLen(s, Len(s)) |->
        LET i == CHOOSE k \in 1..Len(s) :
                     EncodedLen(s, k - 1) < j /\ j <= EncodedLen(s, k)
        IN  IF Width(s[i]) = 1 THEN s[i]
            ELSE IF j = EncodedLen(s, i) THEN "xA9" ELSE "xC3"]

Digits == Chars("0123456789")

DigitVal(c) == (CHOOSE i \in 1..10 : Digits[i] = c) - 1

IsDigit(c) == \E i \in 1..10 : Digits[i] = c

RECURSIVE DecVal(_)
DecVal(s) == IF s = <<>> THEN 0
             ELSE 10 * DecVal(SubSeq(s, 1, Len(s) - 1)) + DigitVal(s[Len(s)])

\* int(s): an optional sign and decimal digits; anything else raises
\* ValueError (ok is FALSE)
ParseInt(s) ==
    LET signed == s # <<>> /\ s[1] \in {"-", "+"}
        digs   == IF signed THEN Tail(s) ELSE s
    IN  IF digs = <<>> \/ \E i \in 1..Len(digs) : ~IsDigit(digs[i])
        THEN [ok |-> FALSE, val |-> 0]
        ELSE [ok |-> TRUE,
              val |-> IF signed /\ s[1] = "-" THEN 0 - DecVal(digs)
                      ELSE DecVal(digs)]

\* str(n), n >= 0
RECURSIVE ToDec(_)
ToDec(n) == IF n < 10 THEN <<Digits[n + 1]>>
            ELSE ToDec(n \div 10) \o <<Digits[(n % 10) + 1]>>

---------------------------------------------------------------------------
(* sanitize_filename                                                       *)

\* the characters the pattern [^a-zA-Z0-9.] leaves alone
AlnumDot ==
    LET s == Chars("abcdefghijklmnopqrstuvwxyzABCDEFGHIJKLMNOPQRSTUVWXYZ0123456789.")
    IN  {s[i] : i \in 1..Len(s)}

\* the mutant of ReSub that takes "/" for a character of a name
ReSubKeepSlash(filename) ==
    [i \in 1..Len(filename) |->
        IF filename[i] \in AlnumDot \cup {"/"} THEN filename[i] ELSE "_"]

\* re.sub(r'[^a-zA-Z0-9.]', '_', filename)
ReSub(filename) ==
    [i \in 1..Len(filename) |->
        IF filename[i] \in AlnumDot THEN filename[i] ELSE "_"]

\* the mutant of TooManyDots that lets a second dot through
TooManyDotsLax(sanitized) == Count(sanitized, ".") > 2

\* sanitized.count('.') > 1
TooManyDots(sanitized) == Count(sanitized, ".") > 1

\* the result of sanitize_filename: ok is FALSE when it raises ValueError
sanitize_filename(filename) ==
    LET sanitized == ReSub(filename)
    IN  IF TooManyDots(sanitized)
        THEN [ok |-> FALSE, val |-> <<>>]
        ELSE [ok |-> TRUE, val |-> sanitized]

---------------------------------------------------------------------------
(* Requests: the inputs of do_POST.                                        *)

\* a header that was not sent, and one that was
Absent == [present |-> FALSE, val |-> <<>>]

Hdr(s) == [present |-> TRUE, val |-> s]

CRLF == Chars("\r\n")

Disposition == Chars("Content-Disposition: form-data; name=\"f\"")

\* One part of a multipart body, from its description d:
\*   "file"     a file part: headers with filename="d.fname", a blank line,
\*              the content, the CRLF before the next delimiter
\*   "field"    a form field with no filename attribute, whose value is
\*              d.content
\*   "noblank"  a file part without the blank line after its headers
\*   "notail"   a file part not followed by CRLF
PartBytes(d) ==
    LET fn == Chars("; filename=\"") \o Encode(d.fname) \o Chars("\"")
    IN  CASE d.kind = "file" ->
               CRLF \o Disposition \o fn \o CRLF \o CRLF \o d.content \o CRLF
          [] d.kind = "field" ->
               CRLF \o Disposition \o CRLF \o CRLF \o d.content \o CRLF
          [] d.kind = "noblank" ->
               CRLF \o Disposition \o fn \o CRLF \o d.content \o CRLF
          [] d.kind = "notail" ->
               CRLF \o Disposition \o fn \o CRLF \o CRLF \o d.content

Part(kind, fname, content) ==
    [kind |-> kind, fname |-> fname, content |-> content]

\* the body a client sends for the parts ds with the delimiter "--" + b
RECURSIVE BodyParts(_, _)
BodyParts(b, ds) ==
    IF ds = <<>> THEN <<>>
    ELSE Chars("--") \o b \o PartBytes(Head(ds)) \o BodyParts(b, Tail(ds))

Body(b, ds) == BodyParts(b, ds) \o Chars("--") \o b \o Chars("--") \o CRLF

\* filenames a client may send: plain, colliding after sanitization, with a
\* path separator, absolute, with two dots, the directory itself, with a
\* control character, with a non-ASCII letter
FileNames ==
    {Chars("r.P"), Chars("a b"), Chars("a_b"), Chars("a/b"), Chars("/x"),
     Chars(".."), Chars("../x"), Chars("."), Chars("a\nb"), <<"U+E9">>,
     Chars("index.html")}

\* file contents: text, empty, with a CRLF inside, with bytes that are not
\* UTF-8, with a well-formed two-byte character
Contents ==
    {Chars("hi"), Chars("AAAA"), Chars("BB"), <<>>, Chars("l\r\nm"),
     <<"xFF", "h">>, <<"xC3", "h">>, <<"xC3", "xA9">>}

\* the lists of parts of the bodies
PartLists ==
    LET files  == {Part("file", f, Chars("hi")) : f \in FileNames}
                  \cup {Part("file", f, c) :
                          f \in {Chars("a b"), Chars("a_b")}, c \in Contents}
        field  == Part("field", <<>>, Chars("hello"))
        token  == Part("field", <<>>, Chars("filename=\"e.t\""))
        nameless == Part("file", <<>>, Chars("zz"))
        first  == Part("file", Chars("r.P"), Chars("hi"))
        second == Part("file", Chars("a_b"), Chars("BB"))
    IN  {<<d>> : d \in files}
        \cup {<<field>>, <<token>>, <<nameless>>, <<>>,
              <<Part("noblank", Chars("r.P"), Chars("hi"))>>,
              <<Part("notail", Chars("r.P"), Chars("hi"))>>,
              <<field, first>>, <<nameless, first>>, <<first, second>>,
              <<second, first>>, <<field, field>>, <<nameless, field>>,
              <<field, nameless>>, <<token, first>>, <<first, token>>}

Boundary == Chars("X")

MultipartX == Chars("multipart/form-data; boundary=X")

Request(path, ctype, clen, boundary, parts) ==
    [path |-> path, content_type |-> ctype, content_length |-> clen,
     body |-> Body(boundary, parts), boundary |-> boundary, parts |-> parts]

\* a request as a browser sends it: the declared length is the body's
Upload(parts) ==
    Request(Chars("/upload"), Hdr(MultipartX),
            Hdr(ToDec(Len(Body(Boundary, parts)))), Boundary, parts)

\* requests that differ in their headers and path
HeaderRequests ==
    LET parts  == <<Part("file", Chars("r.P"), Chars("hi"))>>
        n      == Len(Body(Boundary, parts))
        ctypes == {Absent, Hdr(<<>>), Hdr(Chars("text/plain")),
                   Hdr(Chars("multipart/form-data")),
                   Hdr(Chars("multipart/form-data; boundary=")),
                   Hdr(MultipartX)}
        clens  == {Absent, Hdr(<<>>), Hdr(Chars("abc")), Hdr(Chars("0")),
                   Hdr(Chars("-5")), Hdr(ToDec(n)), Hdr(ToDec(n - 9)),
                   Hdr(ToDec(n + 5))}
        paths  == {Chars("/upload?x=1"), Chars("/upload#top"),
                   Chars("/other"), Chars("/")}
    IN  {Request(Chars("/upload"), ct, cl, Boundary, parts) :
            ct \in ctypes, cl \in clens}
        \cup {Request(p, ct, Hdr(ToDec(n)), Boundary, parts) :
                p \in paths, ct \in {Hdr(MultipartX), Hdr(Chars("text/plain"))}}
        \cup {Request(Chars("/upload"), Hdr(Chars("multipart/form-data")),
                      Hdr(ToDec(Len(Body(Chars("multipart/form-data"), parts)))),
                      Chars("multipart/form-data"), parts)}

Requests == {Upload(ds) : ds \in PartLists} \cup HeaderRequests

\* uploads that meet on one stored name
RaceRequests ==
    {Upload(<<Part("file", f, c)>>) :
        f \in {Chars("a b"), Chars("a_b")},
        c \in {Chars("AAAA"), Chars("BB"), <<>>}}

---------------------------------------------------------------------------
(* do_POST up to the point where it touches the file system.               *)

UPLOAD_DIRECTORY == Chars("./uploads")

chunk_size == 1024

\* s up to the first occurrence of the character ch
Before(s, ch) ==
    LET i == Find(s, <<ch>>, 0)
    IN  IF i = -1 THEN s ELSE Slice(s, 0, i)

\* urlparse(url).path for a url that starts with one "/": the fragment, the
\* query and the parameters of the last segment are split off
urlparse_path(url) ==
    LET noquery == Before(Before(url, "#"), "?")
        i == Find(noquery, <<";">>, IF RFind(noquery, <<"/">>) < 0 THEN 0
                                      ELSE RFind(noquery, <<"/">>))
    IN  IF i < 0 THEN noquery ELSE Slice(noquery, 0, i)

\* os.path.join(base, name)
Join(base, name) ==
    IF name # <<>> /\ name[1] = "/" THEN name
    ELSE IF base # <<>> /\ base[Len(base)] = "/" THEN base \o name
    ELSE base \o <<"/">> \o name

\* what do_POST does with a request before it saves anything:
\*   "reply"  send_error(code, message) and return
\*   "raise"  an exception leaves do_POST
\*   "save"   go on to save file_content as sanitized_filename
Reply(code, message) ==
    [kind |-> "reply", code |-> code, message |-> message,
     sanitized_filename |-> <<>>, file_content |-> <<>>]

Raise(exception) ==
    [kind |-> "raise", code |-> 0, message |-> exception,
     sanitized_filename |-> <<>>, file_content |-> <<>>]

Save(name, content) ==
    [kind |-> "save", code |-> 0, message |-> "",
     sanitized_filename |-> name, file_content |-> content]

\* the mutant of InvalidContentType that only asks for the header
InvalidContentTypeLax(content_type) == ~content_type.present

\* not content_type or "multipart/form-data" not in content_type
InvalidContentType(content_type) ==
    \/ ~content_type.present
    \/ content_type.val = <<>>
    \/ ~Contains(content_type.val, Chars("multipart/form-data"))

\* content_type.split("boundary=")[-1]
BoundaryOf(content_type) ==
    LET pieces == Split(content_type, Chars("boundary="))
    IN  pieces[Len(pieces)]

\* self.rfile.read(content_length): the client sends body and closes its
\* side, so the read ends at content_length bytes or at the end of body
ReadBody(r, content_length) == Slice(r.body, 0, content_length)

\* the body of the loop over parts, from part k on
RECURSIVE ScanParts(_, _)
ScanParts(parts, k) ==
    IF k > Len(parts) THEN Reply(400, "File upload failed")
    ELSE
      LET part == parts[k]
      IN  IF /\ Contains(part, Chars("Content-Disposition: form-data"))
             /\ Contains(part, Chars("filename=\""))
          THEN
            LET filename_start == Find(part, Chars("filename=\""), 0) + 10
                filename_end   == Find(part, Chars("\""), filename_start)
                filename       == Slice(part, filename_start, filename_end)
            IN  IF filename = <<>> THEN ScanParts(parts, k + 1)
                ELSE
                  LET sanitized == sanitize_filename(filename)
                      content_start == Find(part, Chars("\r\n\r\n"), 0) + 4
                      content_end   == RFind(part, Chars("\r\n"))
                      file_content  == Slice(part, content_start, content_end)
                  IN  IF ~sanitized.ok THEN Reply(400, "Invalid filename")
                      ELSE Save(sanitized.val, file_content)
          ELSE ScanParts(parts, k + 1)

do_POST_head(r) ==
    IF urlparse_path(r.path) # Chars("/upload") THEN Reply(404, "")
    ELSE IF InvalidContentType(r.content_type)
    THEN Reply(400, "Invalid content type")
    ELSE
      LET boundary == BoundaryOf(r.content_type.val)
          length   == IF r.content_length.present
                      THEN ParseInt(r.content_length.val)
                      ELSE [ok |-> TRUE, val |-> 0]
      IN  IF boundary = <<>>
          THEN Reply(400, "Missing boundary in content type")
          ELSE IF ~length.ok THEN Raise("ValueError")
          ELSE IF length.val <= 0 THEN Reply(400, "Invalid content length")
          ELSE
            LET post_data == Decode(ReadBody(r, length.val))
                parts     == Split(post_data, Chars("--") \o boundary)
            IN  ScanParts(parts, 1)

\* do_POST_head of every request of the model
HeadOf == [r \in Requests |-> do_POST_head(r)]

---------------------------------------------------------------------------
(* The file system.                                                        *)

\* the directories that exist
Dirs == {Chars("."), <<>>} \cup (IF updir THEN {UPLOAD_DIRECTORY} ELSE {})

\* os.path.dirname(path); <<>> is the root
DirName(path) ==
    LET i == RFind(path, <<"/">>)
    IN  IF i < 0 THEN Chars(".") ELSE Slice(path, 0, i)

\* the paths that name a directory
IsDirectory(path) ==
    \/ path \in Dirs
    \/ \E d \in Dirs : path = d \o Chars("/.")

\* open(path, "wb") raises: IsADirectoryError or FileNotFoundError
OpenFails(path) == IsDirectory(path) \/ DirName(path) \notin Dirs

\* data after writing bytes at offset pos: a gap is filled with NUL bytes
WriteAt(data, pos, bytes) ==
    LET gap == [i \in 1..(IF pos > Len(data) THEN pos - Len(data) ELSE 0)
                  |-> "x00"]
    IN  Slice(data, 0, pos) \o gap \o bytes
        \o Slice(data, pos + Len(bytes), Len(data))

\* the file system with the file at path holding data
Store(path, data) ==
    [p \in (DOMAIN disk) \cup {path} |-> IF p = path THEN data ELSE disk[p]]

---------------------------------------------------------------------------
(* The worker threads.  ThreadingTCPServer runs do_POST of each request in *)
(* a thread of its own; the steps below are the places where a thread      *)
(* reads or writes what the threads share, the file system.                *)

Workers == 1..NumWorkers

NoReq == [path |-> <<>>, content_type |-> Absent, content_length |-> Absent,
          body |-> <<>>, boundary |-> <<>>, parts |-> <<>>]

NoLoc == [sanitized_filename |-> <<>>, file_content |-> <<>>,
          file_path |-> <<>>, i |-> 0, pos |-> 0]

NotCalled == [called |-> FALSE, ok |-> FALSE, val |-> <<>>]

\* no GET request: url is the request's path, path what translate_path
\* makes of it, wasdir what os.path.isdir(path) said in do_GET, served what
\* the static responder did
NoGet == [url |-> <<>>, path |-> <<>>, wasdir |-> FALSE, served |-> "none"]

\* the process while main is in serve_forever: the stop event is clear, the
\* listening socket is bound, the keypress thread polls, nothing has exited
Serving == [main |-> "serving", stop_event |-> FALSE, socket |-> "open",
            keypress |-> "polling", exit_code |-> -1]

\* lines 63-106: the request is read and parsed; a rejected request is
\* answered at once
Receive(w, r) ==
    /\ pc[w] = "idle"
    /\ served < MaxReqs
    /\ served' = served + 1
    /\ req' = [req EXCEPT ![w] = r]
    /\ snap' = [snap EXCEPT ![w] = [updir |-> updir, disk |-> disk]]
    /\ LET h == HeadOf[r]
       IN  CASE h.kind = "reply" ->
                  /\ sent' = [sent EXCEPT ![w] = <<h.code>>]
                  /\ pc' = [pc EXCEPT ![w] = "done"]
                  /\ UNCHANGED <<loc, escaped>>
             [] h.kind = "raise" ->
                  /\ escaped' = [escaped EXCEPT ![w] = TRUE]
                  /\ pc' = [pc EXCEPT ![w] = "done"]
                  /\ UNCHANGED <<loc, sent>>
             [] h.kind = "save" ->
                  /\ loc' = [loc EXCEPT ![w] =
                        [sanitized_filename |-> h.sanitized_filename,
                         file_content |-> h.file_content,
                         file_path |-> <<>>, i |-> 0, pos |-> 0]]
                  /\ pc' = [pc EXCEPT ![w] = "makedirs"]
                  /\ UNCHANGED <<sent, escaped>>
    /\ UNCHANGED <<updir, disk, opened, sanIn, sanOut, log, fault, get, proc>>

\* lines 109-112: os.makedirs(UPLOAD_DIRECTORY, exist_ok=True), the path of
\* the file, logging.info("Starting upload ...")
MakeDirs(w) ==
    /\ pc[w] = "makedirs"
    /\ updir' = TRUE
    /\ loc' = [loc EXCEPT ![w].file_path =
                  Join(UPLOAD_DIRECTORY, loc[w].sanitized_filename)]
    /\ log' = [log EXCEPT ![w] = Append(log[w], "info")]
    /\ pc' = [pc EXCEPT ![w] = "open"]
    /\ UNCHANGED <<disk, opened, req, sent, escaped, snap, served,
                   sanIn, sanOut, fault, get, proc>>

\* the mutant of Open that answers 400 when open raises
OpenRejects(w) ==
    /\ pc[w] = "open"
    /\ opened' = opened \cup {loc[w].file_path}
    /\ IF OpenFails(loc[w].file_path)
       THEN /\ sent' = [sent EXCEPT ![w] = Append(sent[w], 400)]
            /\ log' = [log EXCEPT ![w] = Append(log[w], "error")]
            /\ pc' = [pc EXCEPT ![w] = "done"]
            /\ UNCHANGED disk
       ELSE /\ disk' = Store(loc[w].file_path, <<>>)
            /\ pc' = [pc EXCEPT ![w] = "write"]
            /\ UNCHANGED <<sent, log>>
    /\ UNCHANGED <<updir, req, loc, escaped, snap, served, sanIn, sanOut,
                   fault, get, proc>>

\* line 115: open(file_path, "wb") truncates the file, or raises; lines
\* 134-136 log the error and answer 500 then
Open(w) ==
    /\ pc[w] = "open"
    /\ opened' = opened \cup {loc[w].file_path}
    /\ IF OpenFails(loc[w].file_path)
       THEN /\ sent' = [sent EXCEPT ![w] = Append(sent[w], 500)]
            /\ log' = [log EXCEPT ![w] = Append(log[w], "error")]
            /\ pc' = [pc EXCEPT ![w] = "done"]
            /\ UNCHANGED disk
       ELSE /\ disk' = Store(loc[w].file_path, <<>>)
            /\ pc' = [pc EXCEPT ![w] = "write"]
            /\ UNCHANGED <<sent, log>>
    /\ UNCHANGED <<updir, req, loc, escaped, snap, served, sanIn, sanOut,
                   fault, get, proc>>

\* lines 119-122: one round of the loop, f.write of one chunk at the
\* position of this thread's file object
WriteChunk(w) ==
    /\ pc[w] = "write"
    /\ loc[w].i < Len(loc[w].file_content)
    /\ LET chunk == Slice(loc[w].file_content, loc[w].i,
                          loc[w].i + chunk_size)
           bytes == Encode(chunk)
       IN  /\ disk' = Store(loc[w].file_path,
                            WriteAt(disk[loc[w].file_path], loc[w].pos, bytes))
           /\ loc' = [loc EXCEPT ![w].i = loc[w].i + chunk_size,
                                 ![w].pos = loc[w].pos + Len(bytes)]
    /\ UNCHANGED <<updir, opened, pc, req, sent, escaped, snap, served,
                   sanIn, sanOut, log, fault, get, proc>>

\* lines 125-130: the loop is over, the file is closed, the upload is
\* logged, 201 is sent
Respond(w) ==
    /\ pc[w] = "write"
    /\ loc[w].i >= Len(loc[w].file_content)
    /\ log' = [log EXCEPT ![w] = Append(log[w], "info")]
    /\ sent' = [sent EXCEPT ![w] = Append(sent[w], 201)]
    /\ pc' = [pc EXCEPT ![w] = "done"]
    /\ UNCHANGED <<updir, disk, opened, req, loc, escaped, snap, served,
                   sanIn, sanOut, fault, get, proc>>

\* do_POST has returned (or raised): the thread is free for the next
\* connection
Finish(w) ==
    /\ pc[w] = "done"
    /\ pc' = [pc EXCEPT ![w] = "idle"]
    /\ req' = [req EXCEPT ![w] = NoReq]
    /\ loc' = [loc EXCEPT ![w] = NoLoc]
    /\ sent' = [sent EXCEPT ![w] = <<>>]
    /\ escaped' = [escaped EXCEPT ![w] = FALSE]
    /\ snap' = [snap EXCEPT ![w] = [updir |-> FALSE, disk |-> <<>>]]
    /\ log' = [log EXCEPT ![w] = <<>>]
    /\ fault' = [fault EXCEPT ![w] = "none"]
    /\ get' = [get EXCEPT ![w] = NoGet]
    /\ UNCHANGED <<updir, disk, opened, served, sanIn, sanOut, proc>>

---------------------------------------------------------------------------
(* Failures the environment of a request can cause: the connection is      *)
(* reset, a system call fails.  fault[w] records which one happened.       *)

\* lines 63-78 let the request through to the read of line 81
ReachesRead(r) ==
    /\ urlparse_path(r.path) = Chars("/upload")
    /\ ~InvalidContentType(r.content_type)
    /\ BoundaryOf(r.content_type.val) # <<>>
    /\ r.content_length.present
    /\ ParseInt(r.content_length.val).ok
    /\ ParseInt(r.content_length.val).val > 0

\* line 81: self.rfile.read raises ConnectionResetError; the statement is in
\* no try block, so the exception leaves do_POST
ReceiveReset(w, r) ==
    /\ pc[w] = "idle"
    /\ served < MaxReqs
    /\ ReachesRead(r)
    /\ served' = served + 1
    /\ req' = [req EXCEPT ![w] = r]
    /\ snap' = [snap EXCEPT ![w] = [updir |-> updir, disk |-> disk]]
    /\ fault' = [fault EXCEPT ![w] = "reset"]
    /\ escaped' = [escaped EXCEPT ![w] = TRUE]
    /\ pc' = [pc EXCEPT ![w] = "done"]
    /\ UNCHANGED <<updir, disk, opened, loc, sent, sanIn, sanOut, log, get,
                   proc>>

\* line 109: os.makedirs raises (no permission, a file named uploads); the
\* statement is before the try of line 114, so the exception leaves do_POST
MakeDirsFails(w) ==
    /\ pc[w] = "makedirs"
    /\ fault' = [fault EXCEPT ![w] = "makedirs"]
    /\ escaped' = [escaped EXCEPT ![w] = TRUE]
    /\ pc' = [pc EXCEPT ![w] = "done"]
    /\ UNCHANGED <<updir, disk, opened, req, loc, sent, snap, served,
                   sanIn, sanOut, log, get, proc>>

\* line 115: open raises for a reason of the system (no permission, no
\* space); lines 134-136 log the error and answer 500
OpenDenied(w) ==
    /\ pc[w] = "open"
    /\ opened' = opened \cup {loc[w].file_path}
    /\ fault' = [fault EXCEPT ![w] = "open"]
    /\ log' = [log EXCEPT ![w] = Append(log[w], "error")]
    /\ sent' = [sent EXCEPT ![w] = Append(sent[w], 500)]
    /\ pc' = [pc EXCEPT ![w] = "done"]
    /\ UNCHANGED <<updir, disk, req, loc, escaped, snap, served,
                   sanIn, sanOut, get, proc>>

\* line 122: f.write raises (no space, an I/O error); the file keeps what
\* was written before; lines 134-136 log the error and answer 500
WriteFails(w) ==
    /\ pc[w] = "write"
    /\ loc[w].i < Len(loc[w].file_content)
    /\ fault' = [fault EXCEPT ![w] = "write"]
    /\ log' = [log EXCEPT ![w] = Append(log[w], "error")]
    /\ sent' = [sent EXCEPT ![w] = Append(sent[w], 500)]
    /\ pc' = [pc EXCEPT ![w] = "done"]
    /\ UNCHANGED <<updir, disk, opened, req, loc, escaped, snap, served,
                   sanIn, sanOut, get, proc>>

\* lines 125-133: send_response(201) is called, then end_headers or
\* wfile.write raises ConnectionResetError; line 132 logs a warning and line
\* 133 calls send_error(500), that is send_response(500) and end_headers,
\* which sends the status or raises again
RespondFails(w) ==
    /\ pc[w] = "write"
    /\ loc[w].i >= Len(loc[w].file_content)
    /\ fault' = [fault EXCEPT ![w] = "send"]
    /\ log' = [log EXCEPT ![w] = log[w] \o <<"info", "warning">>]
    /\ sent' = [sent EXCEPT ![w] = sent[w] \o <<201, 500>>]
    /\ \E again \in BOOLEAN : escaped' = [escaped EXCEPT ![w] = again]
    /\ pc' = [pc EXCEPT ![w] = "done"]
    /\ UNCHANGED <<updir, disk, opened, req, loc, snap, served,
                   sanIn, sanOut, get, proc>>

---------------------------------------------------------------------------
(* do_GET: the check for a directory, then the static file responder of    *)
(* SimpleHTTPRequestHandler, which looks at the file system on its own.    *)

\* posixpath.normpath on the components of an absolute path: empty and "."
\* components go, ".." takes the component before it
RECURSIVE NormWords(_, _)
NormWords(words, acc) ==
    IF words = <<>> THEN acc
    ELSE IF Head(words) \in {<<>>, Chars(".")}
    THEN NormWords(Tail(words), acc)
    ELSE IF Head(words) = Chars("..")
    THEN NormWords(Tail(words), Slice(acc, 0, Len(acc) - 1))
    ELSE NormWords(Tail(words), Append(acc, Head(words)))

RECURSIVE JoinWords(_, _)
JoinWords(path, words) ==
    IF words = <<>> THEN path
    ELSE JoinWords(Join(path, Head(words)), Tail(words))

\* translate_path(url) for a url without %-escapes, the server's directory
\* being "."
translate_path(url) ==
    LET path  == Before(Before(url, "?"), "#")
        trailing_slash == path # <<>> /\ path[Len(path)] = "/"
        words == NormWords(Split(path, <<"/">>), <<>>)
        local == JoinWords(Chars("."), words)
    IN  IF trailing_slash THEN local \o <<"/">> ELSE local

\* path without the slashes at its end
RECURSIVE StripSlashes(_)
StripSlashes(path) ==
    IF Len(path) > 1 /\ path[Len(path)] = "/"
    THEN StripSlashes(Slice(path, 0, Len(path) - 1))
    ELSE path

\* os.path.isdir(path) and os.path.isfile(path), as the file system is now
isdir(path) == IsDirectory(StripSlashes(path))

isfile(path) == path \in DOMAIN disk

\* the mutant of RefusesDirectory that knows the served directory only
RefusesRootOnly(path) == isdir(path) /\ StripSlashes(path) = Chars(".")

\* line 56: the condition under which do_GET answers 404 itself
RefusesDirectory(path) == isdir(path)

\* lines 55-58: the path is translated and looked at; a directory is
\* answered 404, anything else goes to the static responder
ReceiveGet(w, url) ==
    /\ pc[w] = "idle"
    /\ served < MaxReqs
    /\ served' = served + 1
    /\ snap' = [snap EXCEPT ![w] = [updir |-> updir, disk |-> disk]]
    /\ LET path == translate_path(url)
       IN  IF RefusesDirectory(path)
           THEN /\ get' = [get EXCEPT ![w] = [url |-> url, path |-> path,
                                   wasdir |-> TRUE, served |-> "none"]]
                /\ sent' = [sent EXCEPT ![w] = <<404>>]
                /\ pc' = [pc EXCEPT ![w] = "done"]
           ELSE /\ get' = [get EXCEPT ![w] = [url |-> url, path |-> path,
                                   wasdir |-> FALSE, served |-> "none"]]
                /\ pc' = [pc EXCEPT ![w] = "static"]
                /\ UNCHANGED sent
    /\ UNCHANGED <<updir, disk, opened, req, loc, escaped, sanIn, sanOut,
                   log, fault, proc>>

\* line 59: super().do_GET(), that is send_head and copyfile.  send_head
\* looks at the path again: a directory is redirected to its name with a
\* slash, or answered with its index.html, or listed; the listing is a
\* BytesIO, on which line 35 (source.fileno()) raises after the 200
StaticResponder(w) ==
    /\ pc[w] = "static"
    /\ LET path == get[w].path
           url  == Before(Before(get[w].url, "?"), "#")
           index == Join(path, Chars("index.html"))
           outcome ==
             IF isdir(path)
             THEN IF url[Len(url)] # "/"
                  THEN [code |-> 301, served |-> "redirect", raises |-> FALSE]
                  ELSE IF isfile(index)
                  THEN [code |-> 200, served |-> "index", raises |-> FALSE]
                  ELSE [code |-> 200, served |-> "listing", raises |-> TRUE]
             ELSE IF path[Len(path)] # "/" /\ isfile(path)
             THEN [code |-> 200, served |-> "file", raises |-> FALSE]
             ELSE [code |-> 404, served |-> "missing", raises |-> FALSE]
       IN  /\ get' = [get EXCEPT ![w].served = outcome.served]
           /\ sent' = [sent EXCEPT ![w] = Append(sent[w], outcome.code)]
           /\ escaped' = [escaped EXCEPT ![w] = outcome.raises]
    /\ pc' = [pc EXCEPT ![w] = "done"]
    /\ UNCHANGED <<updir, disk, opened, req, loc, snap, served, sanIn,
                   sanOut, log, fault, proc>>

---------------------------------------------------------------------------
(* main and monitor_keypress.  The main thread accepts the connections in  *)
(* serve_forever; proc.main is its position, proc.keypress that of the     *)
(* keypress thread.                                                        *)

\* lines 183-184: serve_forever accepts a connection and starts a thread
\* for it; it does so in the main thread, so only while main is in it
Accept(w, r) ==
    /\ proc.main = "serving"
    /\ Receive(w, r)

\* lines 184-185: the interrupt signal raises KeyboardInterrupt in the main
\* thread, inside serve_forever
KeyboardInterrupt ==
    /\ proc.main = "serving"
    /\ proc' = [proc EXCEPT !.main = "except"]
    /\ UNCHANGED <<updir, disk, opened, pc, req, loc, sent, escaped, snap,
                   served, sanIn, sanOut, log, fault, get>>

\* the mutant of StopEventSet that forgets the event
StopEventForgotten ==
    /\ proc.main = "except"
    /\ proc' = [proc EXCEPT !.main = "stop_set"]
    /\ UNCHANGED <<updir, disk, opened, pc, req, loc, sent, escaped, snap,
                   served, sanIn, sanOut, log, fault, get>>

\* lines 186-187: the shutdown is logged, stop_event.set()
StopEventSet ==
    /\ proc.main = "except"
    /\ proc' = [proc EXCEPT !.main = "stop_set", !.stop_event = TRUE]
    /\ UNCHANGED <<updir, disk, opened, pc, req, loc, sent, escaped, snap,
                   served, sanIn, sanOut, log, fault, get>>

\* line 188, httpd.server_close(): first the listening socket is closed
ServerClose ==
    /\ proc.main = "stop_set"
    /\ proc' = [proc EXCEPT !.main = "joining", !.socket = "closed"]
    /\ UNCHANGED <<updir, disk, opened, pc, req, loc, sent, escaped, snap,
                   served, sanIn, sanOut, log, fault, get>>

\* line 188, the rest of server_close(): it joins the request threads,
\* which are not daemon threads; then the with block of line 173 ends
\* (server_close once more, with nothing left to do) and main returns
ThreadsJoined ==
    /\ proc.main = "joining"
    /\ \A w \in Workers : pc[w] = "idle"
    /\ proc' = [proc EXCEPT !.main = "returned"]
    /\ UNCHANGED <<updir, disk, opened, pc, req, loc, sent, escaped, snap,
                   served, sanIn, sanOut, log, fault, get>>

\* lines 197-198: main has returned, the interpreter exits with code 0;
\* the keypress thread is a daemon thread (line 180) and ends with it
ProcessExit ==
    /\ proc.main = "returned"
    /\ proc' = [proc EXCEPT !.main = "exited", !.exit_code = 0,
                            !.keypress = "stopped"]
    /\ UNCHANGED <<updir, disk, opened, pc, req, loc, sent, escaped, snap,
                   served, sanIn, sanOut, log, fault, get>>

\* lines 146-153: the loop of monitor_keypress finds the event clear and
\* the key L pressed, and goes to list the directory
KeypressL ==
    /\ proc.keypress = "polling"
    /\ ~proc.stop_event
    /\ proc' = [proc EXCEPT !.keypress = "listing"]
    /\ UNCHANGED <<updir, disk, opened, pc, req, loc, sent, escaped, snap,
                   served, sanIn, sanOut, log, fault, get>>

\* lines 151-153: the directory is listed, back to the head of the loop
KeypressListed ==
    /\ proc.keypress = "listing"
    /\ proc' = [proc EXCEPT !.keypress = "polling"]
    /\ UNCHANGED <<updir, disk, opened, pc, req, loc, sent, escaped, snap,
                   served, sanIn, sanOut, log, fault, get>>

\* line 146: the loop finds the event set and ends
KeypressStop ==
    /\ proc.keypress = "polling"
    /\ proc.stop_event
    /\ proc' = [proc EXCEPT !.keypress = "stopped"]
    /\ UNCHANGED <<updir, disk, opened, pc, req, loc, sent, escaped, snap,
                   served, sanIn, sanOut, log, fault, get>>

\* a call of sanitize_filename on its own
Sanitize ==
    /\ ~sanOut.called
    /\ sanOut' = [called |-> TRUE, ok |-> sanitize_filename(sanIn).ok,
                  val |-> sanitize_filename(sanIn).val]
    /\ UNCHANGED <<updir, disk, opened, pc, req, loc, sent, escaped, snap,
                   served, sanIn, log, fault, get, proc>>

---------------------------------------------------------------------------
(* Specifications.                                                         *)

Idle ==
    /\ updir = FALSE
    /\ disk = <<>>
    /\ opened = {}
    /\ pc = [w \in Workers |-> "idle"]
    /\ req = [w \in Workers |-> NoReq]
    /\ loc = [w \in Workers |-> NoLoc]
    /\ sent = [w \in Workers |-> <<>>]
    /\ escaped = [w \in Workers |-> FALSE]
    /\ snap = [w \in Workers |-> [updir |-> FALSE, disk |-> <<>>]]
    /\ served = 0
    /\ sanOut = NotCalled
    /\ log = [w \in Workers |-> <<>>]
    /\ fault = [w \in Workers |-> "none"]
    /\ get = [w \in Workers |-> NoGet]
    /\ proc = Serving

Init == Idle /\ sanIn = <<>>

\* requests served one after the other, by one thread
Next ==
    \/ \E r \in Requests : Receive(1, r)
    \/ MakeDirs(1)
    \/ Open(1)
    \/ WriteChunk(1)
    \/ Respond(1)
    \/ Finish(1)

Spec == Init /\ [][Next]_vars

\* requests served at the same time, by every thread
NextRace ==
    \/ \E w \in Workers : \E r \in RaceRequests : Receive(w, r)
    \/ \E w \in Workers : MakeDirs(w)
    \/ \E w \in Workers : Open(w)
    \/ \E w \in Workers : WriteChunk(w)
    \/ \E w \in Workers : Respond(w)
    \/ \E w \in Workers : Finish(w)

SpecRace == Init /\ [][NextRace]_vars

\* requests served one after the other while connections break and system
\* calls fail
NextFaults ==
    \/ Next
    \/ \E r \in Requests : ReceiveReset(1, r)
    \/ MakeDirsFails(1)
    \/ OpenDenied(1)
    \/ WriteFails(1)
    \/ RespondFails(1)

SpecFaults == Init /\ [][NextFaults]_vars

\* the paths of the GET requests: the served directory, the upload
\* directory in several spellings, files that exist at times
GetUrls ==
    {Chars("/"), Chars("/uploads"), Chars("/uploads/"), Chars("/uploads?x=1"),
     Chars("/./uploads"), Chars("/uploads/.."), Chars("/uploads/index.html"),
     Chars("/uploads/index.html/"), Chars("/index.html")}

\* the upload that goes on while GET requests are served
GetUploads == {Upload(<<Part("file", Chars("index.html"), Chars("hi"))>>)}

\* the server starts in a directory that holds an index.html, or none
InitGet ==
    /\ updir = FALSE
    /\ disk \in {<<>>, Chars("./index.html") :> Chars("hi")}
    /\ opened = {}
    /\ pc = [w \in Workers |-> "idle"]
    /\ req = [w \in Workers |-> NoReq]
    /\ loc = [w \in Workers |-> NoLoc]
    /\ sent = [w \in Workers |-> <<>>]
    /\ escaped = [w \in Workers |-> FALSE]
    /\ snap = [w \in Workers |-> [updir |-> FALSE, disk |-> <<>>]]
    /\ served = 0
    /\ sanIn = <<>>
    /\ sanOut = NotCalled
    /\ log = [w \in Workers |-> <<>>]
    /\ fault = [w \in Workers |-> "none"]
    /\ get = [w \in Workers |-> NoGet]
    /\ proc = Serving

\* GET requests served while uploads go on, by every thread
NextGet ==
    \/ \E w \in Workers : \E url \in GetUrls : ReceiveGet(w, url)
    \/ \E w \in Workers : StaticResponder(w)
    \/ \E w \in Workers : \E r \in GetUploads : Receive(w, r)
    \/ \E w \in Workers : MakeDirs(w)
    \/ \E w \in Workers : Open(w)
    \/ \E w \in Workers : WriteChunk(w)
    \/ \E w \in Workers : Respond(w)
    \/ \E w \in Workers : Finish(w)

SpecGet == InitGet /\ [][NextGet]_vars

\* the requests in flight when the server shuts down
ShutdownRequests ==
    {Upload(<<Part("file", Chars("a_b"), Chars("BB"))>>),
     Upload(<<Part("file", Chars(".."), Chars("hi"))>>)}

\* what a request thread does once it is started
Handler(w) ==
    MakeDirs(w) \/ Open(w) \/ WriteChunk(w) \/ Respond(w) \/ Finish(w)

\* what the main thread does once it is interrupted
Shutdown == StopEventSet \/ ServerClose \/ ThreadsJoined \/ ProcessExit

\* the server with its main thread and its keypress thread
NextShutdown ==
    \/ \E w \in Workers : \E r \in ShutdownRequests : Accept(w, r)
    \/ \E w \in Workers : Handler(w)
    \/ KeyboardInterrupt
    \/ Shutdown
    \/ KeypressL
    \/ KeypressListed
    \/ KeypressStop

\* every thread that can run does run in the end: the main thread, and the
\* request threads, whose clients have sent their requests
SpecShutdown ==
    /\ Init
    /\ [][NextShutdown]_vars
    /\ WF_vars(Shutdown)
    /\ \A w \in Workers : WF_vars(Handler(w))

\* the characters of the filenames given to sanitize_filename on its own
SanChars == {"a", "Z", "0", ".", "_", "/", " ", "U+E9"}

\* the strings over SanChars of length n
StringsOfLen(n) == [1..n -> SanChars]

InitSanitize ==
    /\ Idle
    /\ sanIn \in UNION {StringsOfLen(n) : n \in 0..MaxLen}

NextSanitize == Sanitize

SpecSanitize == InitSanitize /\ [][NextSanitize]_vars

---------------------------------------------------------------------------
(* What the properties speak of.                                           *)

\* the characters of a sanitized filename, [A-Za-z0-9_.]
NameChars ==
    LET s == Chars("ABCDEFGHIJKLMNOPQRSTUVWXYZabcdefghijklmnopqrstuvwxyz0123456789_.")
    IN  {s[i] : i \in 1..Len(s)}

\* the characters sanitization keeps, [A-Za-z0-9.]
KeptChars == NameChars \ {"_"}

\* name is s with every character outside [A-Za-z0-9.] replaced by "_"
IsSanitizedFrom(name, s) ==
    /\ Len(name) = Len(s)
    /\ \A i \in 1..Len(s) :
          name[i] = IF s[i] \in KeptChars THEN s[i] ELSE "_"

\* a non-empty name over [A-Za-z0-9_.] with at most one "."
IsSafeName(name) ==
    /\ name # <<>>
    /\ \A i \in 1..Len(name) : name[i] \in NameChars
    /\ Count(name, ".") <= 1

\* path is UPLOAD_DIRECTORY/<a safe name>
IsSafeChild(path) ==
    LET n == Len(UPLOAD_DIRECTORY) + 1
    IN  /\ Slice(path, 0, n) = UPLOAD_DIRECTORY \o <<"/">>
        /\ IsSafeName(Slice(path, n, Len(path)))

\* the stored path of the upload of a file named fname
StoredPath(fname) ==
    UPLOAD_DIRECTORY \o <<"/">> \o
    [i \in 1..Len(fname) |-> IF fname[i] \in KeptChars THEN fname[i] ELSE "_"]

\* the request is a POST to /upload
ToUpload(r) == Before(Before(r.path, "#"), "?") = Chars("/upload")

\* the request declares multipart/form-data with the boundary its body uses
\* and the length of its body
GoodHeaders(r) ==
    /\ ToUpload(r)
    /\ r.content_type = Hdr(MultipartX)
    /\ r.boundary = Boundary
    /\ r.content_length = Hdr(ToDec(Len(r.body)))

\* a well-formed upload of one file whose name sanitization accepts and
\* which does not name the upload directory itself
IsFileUpload(r) ==
    /\ GoodHeaders(r)
    /\ Len(r.parts) = 1
    /\ r.parts[1].kind = "file"
    /\ r.parts[1].fname \notin {<<>>, <<".">>}
    /\ Count(r.parts[1].fname, ".") <= 1

\* the request left the file system as it found it
FsUnchanged(w) == disk = snap[w].disk /\ updir = snap[w].updir

\* the request was answered with the one status code
Answered(w, code) == sent[w] = <<code>> /\ ~escaped[w]

\* worker w holds a request
Busy(w) == pc[w] # "idle"

---------------------------------------------------------------------------
(* C2: sanitize_filename(s) fails exactly when s has two or more dots;     *)
(* otherwise it returns s with each character outside [A-Za-z0-9.]         *)
(* replaced by "_" and the others unchanged: a string of the same length   *)
(* over [A-Za-z0-9_.].                                                      *)
C2_Sanitize ==
    sanOut.called =>
        /\ sanOut.ok <=> Count(sanIn, ".") < 2
        /\ sanOut.ok =>
              /\ IsSanitizedFrom(sanOut.val, sanIn)
              /\ \A i \in 1..Len(sanOut.val) : sanOut.val[i] \in NameChars

\* a name with one dot and a character to replace went through
C2_Witness ==
    /\ sanOut.called
    /\ sanOut.ok
    /\ Count(sanIn, ".") = 1
    /\ \E i \in 1..Len(sanIn) : sanIn[i] \notin KeptChars /\ sanOut.val[i] = "_"

(* C3: every path the handler opens for writing, and every file there is,  *)
(* is UPLOAD_DIRECTORY/<name> with name non-empty, over [A-Za-z0-9_.] and  *)
(* with at most one dot, whatever filenames the requests carry.            *)
C3_SafePaths ==
    /\ \A p \in opened : IsSafeChild(p)
    /\ \A p \in DOMAIN disk : IsSafeChild(p)
    /\ \A w \in Workers :
          pc[w] \in {"open", "write"} => IsSafeChild(loc[w].file_path)

\* an upload whose filename holds a path separator was stored
C3_Witness ==
    \E w \in Workers :
        /\ pc[w] = "done"
        /\ Answered(w, 201)
        /\ Len(req[w].parts) = 1
        /\ req[w].parts[1].fname = Chars("a/b")
        /\ opened = {Chars("./uploads/a_b")}
        /\ DOMAIN disk = {Chars("./uploads/a_b")}

(* C6: a POST to /upload whose Content-Type is absent or does not contain   *)
(* multipart/form-data is answered 400 and nothing else happens: the body  *)
(* is not parsed, the upload directory and the files are as before.        *)
C6_InvalidContentType ==
    \A w \in Workers :
        (/\ Busy(w)
         /\ ToUpload(req[w])
         /\ \/ ~req[w].content_type.present
            \/ ~Contains(req[w].content_type.val, Chars("multipart/form-data")))
        => /\ pc[w] = "done"
           /\ Answered(w, 400)
           /\ loc[w] = NoLoc
           /\ FsUnchanged(w)

\* a text/plain request was rejected while a stored file was there to keep
C6_Witness ==
    \E w \in Workers :
        /\ pc[w] = "done"
        /\ ToUpload(req[w])
        /\ req[w].content_type = Hdr(Chars("text/plain"))
        /\ req[w].content_length = Hdr(ToDec(Len(req[w].body)))
        /\ Answered(w, 400)
        /\ disk # <<>>

(* C1: a well-formed upload of one file with content c is answered 201    *)
(* and the file stored under the sanitized filename holds exactly the      *)
(* bytes c, whatever bytes they are.                                       *)
C1_RoundTrip ==
    \A w \in Workers :
        (pc[w] = "done" /\ IsFileUpload(req[w]))
        => /\ Answered(w, 201)
           /\ StoredPath(req[w].parts[1].fname) \in DOMAIN disk
           /\ disk[StoredPath(req[w].parts[1].fname)] = req[w].parts[1].content

(* C4: when a successful upload finds a file stored under the same         *)
(* sanitized name by an earlier upload, the stored file afterwards holds   *)
(* exactly the bytes of the later upload.                                  *)
C4_Overwrite ==
    \A w \in Workers :
        (/\ pc[w] = "done"
         /\ IsFileUpload(req[w])
         /\ Answered(w, 201)
         /\ StoredPath(req[w].parts[1].fname) \in DOMAIN snap[w].disk)
        => disk[StoredPath(req[w].parts[1].fname)] = req[w].parts[1].content

(* C5: when two workers have both finished uploads to the same sanitized   *)
(* name, both were answered 201 and the stored file holds the whole        *)
(* content of one of the two uploads.                                      *)
C5_LastWriterWins ==
    \A v, w \in Workers :
        (/\ v # w
         /\ pc[v] = "done" /\ pc[w] = "done"
         /\ IsFileUpload(req[v]) /\ IsFileUpload(req[w])
         /\ StoredPath(req[v].parts[1].fname)
              = StoredPath(req[w].parts[1].fname))
        => /\ Answered(v, 201) /\ Answered(w, 201)
           /\ disk[StoredPath(req[w].parts[1].fname)]
                \in {req[v].parts[1].content, req[w].parts[1].content}

(* C7: a well-framed upload in which no part has a filename attribute      *)
(* with a non-empty value is answered 400 and no file is written.          *)
C7_NoFileFound ==
    \A w \in Workers :
        (/\ pc[w] = "done"
         /\ GoodHeaders(req[w])
         /\ \A k \in 1..Len(req[w].parts) :
               \/ req[w].parts[k].kind = "field"
               \/ req[w].parts[k].kind = "file" /\ req[w].parts[k].fname = <<>>)
        => /\ Answered(w, 400)
           /\ FsUnchanged(w)

(* C8: a POST to /upload whose Content-Type contains multipart/form-data   *)
(* but no boundary= parameter, or an empty one, is answered 400 and no     *)
(* file is written (the declared length being that of the body).           *)
C8_MissingBoundary ==
    \A w \in Workers :
        (/\ pc[w] = "done"
         /\ ToUpload(req[w])
         /\ req[w].content_type.present
         /\ Contains(req[w].content_type.val, Chars("multipart/form-data"))
         /\ \/ ~Contains(req[w].content_type.val, Chars("boundary="))
            \/ BoundaryOf(req[w].content_type.val) = <<>>
         /\ req[w].content_length = Hdr(ToDec(Len(req[w].body))))
        => /\ Answered(w, 400)
           /\ FsUnchanged(w)

(* C9: a POST to /upload (multipart, with a boundary) whose Content-Length *)
(* is absent, not an integer, or not greater than zero is answered 400;    *)
(* no body is read and no file is written.                                 *)
C9_InvalidLength ==
    \A w \in Workers :
        (/\ Busy(w)
         /\ ToUpload(req[w])
         /\ req[w].content_type = Hdr(MultipartX)
         /\ \/ ~req[w].content_length.present
            \/ ~ParseInt(req[w].content_length.val).ok
            \/ ParseInt(req[w].content_length.val).val <= 0)
        => /\ pc[w] = "done"
           /\ Answered(w, 400)
           /\ loc[w] = NoLoc
           /\ FsUnchanged(w)

(* C10: a well-framed upload whose first file part has no blank line       *)
(* after its headers is answered 400 and no file is created or written.    *)
C10_MalformedPart ==
    \A w \in Workers :
        (/\ pc[w] = "done"
         /\ GoodHeaders(req[w])
         /\ Len(req[w].parts) = 1
         /\ req[w].parts[1].kind = "noblank"
         /\ req[w].parts[1].fname # <<>>)
        => /\ Answered(w, 400)
           /\ FsUnchanged(w)

(* C11: when the read of the body is cut short (the client declared more   *)
(* bytes than it sent) or ends in a connection error, the request is        *)
(* answered 500, nothing is parsed or written and no exception leaves the   *)
(* handler.                                                                 *)
C11_ReadFailure ==
    \A w \in Workers :
        (/\ pc[w] = "done"
         /\ ReachesRead(req[w])
         /\ \/ fault[w] = "reset"
            \/ ParseInt(req[w].content_length.val).val > Len(req[w].body))
        => /\ Answered(w, 500)
           /\ loc[w] = NoLoc
           /\ FsUnchanged(w)

(* C12: when creating the upload directory, opening the target path or     *)
(* writing a chunk fails, the request is answered 500 and never 201, and    *)
(* the error is logged.                                                     *)
C12_WriteFailure ==
    \A w \in Workers :
        (pc[w] = "done" /\ fault[w] \in {"makedirs", "open", "write"})
        => /\ Answered(w, 500)
           /\ log[w] # <<>>
           /\ log[w][Len(log[w])] = "error"

\* the GET paths that name the served directory, and those that name the
\* upload directory
RootUrls == {Chars("/"), Chars("/uploads/..")}

UploadsUrls ==
    {Chars("/uploads"), Chars("/uploads/"), Chars("/uploads?x=1"),
     Chars("/./uploads")}

\* worker w serves a GET request whose path named a directory when the
\* request came
GetsDirectory(w) ==
    \/ get[w].url \in RootUrls
    \/ get[w].url \in UploadsUrls /\ snap[w].updir

ShutDown ==
    /\ proc.main = "exited"
    /\ proc.exit_code = 0
    /\ proc.stop_event
    /\ proc.keypress = "stopped"
    /\ proc.socket = "closed"
    /\ \A w \in Workers : pc[w] = "idle"

FileBearing(d) == d.kind \in {"file", "notail"} /\ d.fname # <<>>

\* the index of the first file-bearing part of the request, 0 for none
Chosen(r) ==
    LET ks == {k \in 1..Len(r.parts) : FileBearing(r.parts[k])}
    IN  IF ks = {} THEN 0 ELSE Min(ks)

(* C15: of a well-framed upload with a file-bearing part, the first part   *)
(* whose header block has a non-empty filename is the one saved, whatever   *)
(* the parts before it hold in their content and whatever follows it; no    *)
(* other file is written, and none at all when its name has two dots.       *)
C15_FirstFilePart ==
    \A w \in Workers :
        (/\ pc[w] = "done"
         /\ GoodHeaders(req[w])
         /\ Chosen(req[w]) # 0
         /\ \A k \in 1..Len(req[w].parts) : req[w].parts[k].kind # "noblank")
        => LET fname == req[w].parts[Chosen(req[w])].fname
           IN  IF Count(fname, ".") > 1
               THEN loc[w] = NoLoc /\ FsUnchanged(w)
               ELSE /\ loc[w].file_path = StoredPath(fname)
                    /\ DOMAIN disk \subseteq
                          DOMAIN snap[w].disk \cup {StoredPath(fname)}

(* C16: of a well-framed upload of one file part, the extracted content   *)
(* is what stands between the blank line and the end of the part, less one  *)
(* CRLF when the part ends with one and less nothing when it does not; a    *)
(* CRLF inside the content does not end it.                                 *)
C16_ContentBounds ==
    \A w \in Workers :
        (/\ pc[w] = "done"
         /\ GoodHeaders(req[w])
         /\ Len(req[w].parts) = 1
         /\ FileBearing(req[w].parts[1])
         /\ Count(req[w].parts[1].fname, ".") <= 1)
        => loc[w].file_content = Decode(req[w].parts[1].content)

(* C17: a POST request answered 400 or 404 has left the file system as it *)
(* found it: the upload directory was not created, no file was created,     *)
(* truncated or written, and the request never came to the saving steps.    *)
C17_RejectedFrame ==
    \A w \in Workers :
        (/\ pc[w] = "done"
         /\ get[w] = NoGet
         /\ sent[w] # <<>>
         /\ \E i \in 1..Len(sent[w]) : sent[w][i] \in {400, 404})
        => /\ FsUnchanged(w)
           /\ loc[w] = NoLoc

\* a filename with two dots was refused with 400 while a stored file was
\* there to keep
C17_Witness ==
    \E w \in Workers :
        /\ pc[w] = "done"
        /\ GoodHeaders(req[w])
        /\ Len(req[w].parts) = 1
        /\ req[w].parts[1].fname = Chars("..")
        /\ Answered(w, 400)
        /\ snap[w].disk # <<>>
        /\ disk = snap[w].disk

(* C18: a POST request calls send_response once at most: after the 201 of  *)
(* an upload no further status follows, also when sending the 201 headers   *)
(* or the confirmation fails with a connection error.                       *)
C18_OneStatus == \A w \in Workers : Len(sent[w]) <= 1

=============================================================================
